---- MODULE Spec2Model ----
(***************************************************************************)
(* Command-interception layer of the pipeline execution engine             *)
(* (pkg/devspace/pipeline/engine/handler.go).  Two variants of the         *)
(* handler exist in the source: the full engine (six gated reserved        *)
(* commands) and the reduced engine (build, deploy, dev, ungated).         *)
(*                                                                         *)
(* The interpreter creates an invocation (Invoke), the handler runs it     *)
(* to completion (ExecHandlerAction / ExecHandlerReducedAction) and the    *)
(* interpreter consumes the result (Return).  Everything the handler does  *)
(* during one invocation is recorded in out: the ordered trace of calls    *)
(* it made, the lines it wrote to the invocation's error stream and the    *)
(* value it returned.                                                      *)
(***************************************************************************)
EXTENDS Integers, Sequences, FiniteSets, TLC

VARIABLES
    e,      \* the handler: engine variant and the fields of execHandler
    pc,     \* idle, called (invocation handed to the handler) or done
    inv,    \* the invocation: args and the interpreter's handler context
    out,    \* what the handler did with it: calls, error stream, result
    cache,  \* the downloader's resolved paths, kept for the run
    acq,    \* the binaries acquired during the current invocation
    prev,   \* working directory and scope of the previous invocation
    ps,     \* concurrent steps: each one's invocation and progress in ExecHandler
    streams, \* concurrent steps: the error stream of each step's invocation
    version,          \* upgrade: the current version (package variable)
    rawVersion,       \* upgrade: the current version tag as given (package variable)
    verText,          \* upgrade: the argument of the last SetVersion call
    latestVersion,    \* upgrade: memoised latest release version
    latestVersionErr, \* upgrade: memoised detection error
    latestVersionOnce, \* upgrade: state of the sync.Once
    detections,       \* upgrade: number of calls of selfupdate.DetectLatest
    callers,          \* upgrade: the goroutines calling CheckForNewerVersion
    crashed,          \* upgrade: the process was aborted by a panic
    deployer,    \* kubectl deployer: the DeployConfig (Manifests, DeploymentConfig)
    files,       \* kubectl deployer: content version of each local manifest path
    remoteCache, \* kubectl deployer: the deployment cache entry of the deployment
    dres         \* kubectl deployer: what the last operation did and returned

hvars == <<e, pc, inv, out>>

rvars == <<cache, acq, prev>>

cvars == <<ps, streams>>

uvars == <<version, rawVersion, verText, latestVersion, latestVersionErr, latestVersionOnce,
           detections, callers, crashed>>

dvars == <<deployer, files, remoteCache, dres>>

vars == <<hvars, rvars, cvars, uvars, dvars>>

----------------------------------------------------------------------------
(* Bounds and input domains *)

\* largest number of arguments after the command name
MaxArgs == 2

\* number of concurrently scheduled steps calling the handler
NumProcs == 2

Procs == 1..NumProcs

\* number of goroutines calling CheckForNewerVersion
NumCallers == 2

Callers == 1..NumCallers

\* how many times DetectLatest is counted before the count stops
MaxDetections == 3

\* largest number of manifests of a kubectl deployment
MaxManifests == 2

ArgVals == {"--all", "myapp"}

ReservedNames ==
    {"run_pipelines", "build_images", "create_deployments",
     "start_dev", "stop_dev", "run_dependencies_pipeline"}

ReducedReservedNames == {"build", "deploy", "dev"}

FallbackNames == {"cat", "kubectl", "helm", "devspace"}

OtherNames == {"totally-unknown-tool", "ls"}

Names == ReservedNames \cup ReducedReservedNames \cup FallbackNames \cup OtherNames

Dirs == {"/work", "/work/sub"}

TopStdout == "top"

Streams == {TopStdout, "redirect"}

Scopes == {"step1", "step2"}

Levels == {"info", "debug"}

Nil == "nil"

Errs == {Nil, "E1", "context canceled"}

RECURSIVE SeqsUpTo(_, _)
SeqsUpTo(S, n) ==
    IF n = 0 THEN {<<>>}
    ELSE LET shorter == SeqsUpTo(S, n - 1)
         IN shorter \cup {Append(s, x) : s \in {t \in shorter : Len(t) = n - 1}, x \in S}

ArgLists == {<<>>} \cup {<<n>> \o r : n \in Names, r \in SeqsUpTo(ArgVals, MaxArgs)}

----------------------------------------------------------------------------
(* Values *)

NilError == [kind |-> "nil", status |-> 0]

NewExitStatus(n) == [kind |-> "exitStatus", status |-> n]

Panic == [kind |-> "panic", status |-> 0]

NoCtx == [context |-> "none", workingDir |-> "none",
          log |-> [kind |-> "none", stream |-> "none", level |-> "none"]]

\* one entry of the call log of an invocation: the callee, the command name
\* (or tool) and arguments it was given, the scoped context it was given,
\* and what it returned
Event(op, name, args, devCtx, res) ==
    [op |-> op, name |-> name, args |-> args, devCtx |-> devCtx, res |-> res]

NewStreamLogger(w, level) == [kind |-> "stream", stream |-> w, level |-> level]

\* errors.Wrap(err, message) prints as "message: err"
Wrap(err, message) == message \o ": " \o err

GateMessage(command) ==
    command \o ": cannot execute the command because it can only be executed within a pipeline step"

KubectlPath == "/cache/kubectl"
HelmPath == "/cache/helm"
SelfPath == "/usr/local/bin/devspace"

----------------------------------------------------------------------------
(* Collaborators outside the handler *)

\* lookPathDir(hc.Dir, hc.Env, name): whether name resolves from the
\* invocation's working directory and search path.  The paths produced by
\* the downloader and by os.Executable are absolute paths of existing files.
lookPathDir(i, name) ==
    IF name \in {KubectlPath, HelmPath, SelfPath} THEN TRUE ELSE i.local

\* interp.DefaultExecHandler(2*time.Second)(ctx, args): looks args[0] up,
\* reports "not found" with exit status 127, otherwise runs the process
\* and returns nil for exit code 0 and the exit status otherwise.  What the
\* started process or the lookup prints is not recorded: stderr in the
\* results below holds the lines written by the handler's own code.
DefaultExecHandler(i, args, proc) ==
    IF Len(args) = 0
    THEN [trace |-> <<Event("DefaultExecHandler", "", args, NoCtx, "panic")>>,
          ret |-> Panic]
    ELSE IF ~lookPathDir(i, args[1])
    THEN [trace |-> <<Event("DefaultExecHandler", args[1], args, NoCtx, "not found")>>,
          ret |-> NewExitStatus(127)]
    ELSE [trace |-> <<Event("DefaultExecHandler", args[1], args, NoCtx, "started")>>,
          ret |-> IF proc = 0 THEN NilError ELSE NewExitStatus(proc)]

\* downloader.NewDownloader(cmd, logger).EnsureCommand() and os.Executable():
\* the path on success
PathOrErr(path, err) == IF err # Nil THEN err ELSE path

----------------------------------------------------------------------------
(* Full engine *)

\* handleError returning nil instead of exit status 0
handleErrorNilOnSuccess(command, err) ==
    IF err = Nil
    THEN [stderr |-> <<>>, ret |-> NilError]
    ELSE [stderr |-> <<Wrap(err, command)>>, ret |-> NewExitStatus(1)]

handleError(command, err) ==
    IF err = Nil
    THEN [stderr |-> <<>>, ret |-> NewExitStatus(0)]
    ELSE [stderr |-> <<Wrap(err, command)>>, ret |-> NewExitStatus(1)]

\* executePipelineCommand without the gate
executePipelineCommandUngated(h, command, commandFn, err) ==
    LET r == handleError(command, err)
    IN [handled |-> TRUE, trace |-> <<commandFn>>,
        stderr |-> r.stderr, ret |-> r.ret]

\* executePipelineCommand reporting a rejected command as not handled
executePipelineCommandFallsThrough(h, command, commandFn, err) ==
    IF ~h.enablePipelineCommands
    THEN [handled |-> FALSE, trace |-> <<>>,
          stderr |-> <<GateMessage(command)>>, ret |-> NilError]
    ELSE LET r == handleError(command, err)
         IN [handled |-> TRUE, trace |-> <<commandFn>>,
             stderr |-> r.stderr, ret |-> r.ret]

\* commandFn is the native call the closure makes, err what that call returns
executePipelineCommand(h, command, commandFn, err) ==
    IF ~h.enablePipelineCommands
    THEN [handled |-> TRUE, trace |-> <<>>,
          stderr |-> <<GateMessage(command)>>, ret |-> NewExitStatus(1)]
    ELSE LET r == handleError(command, err)
         IN [handled |-> TRUE, trace |-> <<commandFn>>,
             stderr |-> r.stderr, ret |-> r.ret]

\* deriveContext keeping the ambient working directory and scope
deriveContextAmbientDir(h, i) ==
    [context |-> h.ctx.context,
     workingDir |-> h.ctx.workingDir,
     log |-> IF h.stdout # Nil /\ h.stdout = i.stdout
             THEN h.ctx.log
             ELSE NewStreamLogger(i.stdout, h.ctx.log.level)]

\* deriveContext wrapping the invocation's stream for every invocation
deriveContextAlwaysStream(h, i) ==
    [context |-> i.ctx,
     workingDir |-> i.dir,
     log |-> NewStreamLogger(i.stdout, h.ctx.log.level)]

\* e.ctx.WithContext(ctx).WithWorkingDir(hc.Dir).WithLogger(...)
deriveContext(h, i) ==
    [context |-> i.ctx,
     workingDir |-> i.dir,
     log |-> IF h.stdout # Nil /\ h.stdout = i.stdout
             THEN h.ctx.log
             ELSE NewStreamLogger(i.stdout, h.ctx.log.level)]

\* handlePipelineCommands with create_deployments wired to Build
handlePipelineCommandsSwapped(h, i, command, args, err) ==
    LET devCtx == deriveContext(h, i)
        derive == Event("devCtx", command, args, devCtx, "devCtx")
        r == CASE command = "run_pipelines" ->
                    executePipelineCommand(h, command, Event("Pipeline", command, args, devCtx, err), err)
               [] command = "build_images" ->
                    executePipelineCommand(h, command, Event("Build", command, args, devCtx, err), err)
               [] command = "create_deployments" ->
                    executePipelineCommand(h, command, Event("Build", command, args, devCtx, err), err)
               [] command = "start_dev" ->
                    executePipelineCommand(h, command, Event("StartDev", command, args, devCtx, err), err)
               [] command = "stop_dev" ->
                    executePipelineCommand(h, command, Event("StopDev", command, args, devCtx, err), err)
               [] command = "run_dependencies_pipeline" ->
                    executePipelineCommand(h, command, Event("Dependency", command, args, devCtx, err), err)
               [] OTHER ->
                    [handled |-> FALSE, trace |-> <<>>, stderr |-> <<>>, ret |-> NilError]
    IN [r EXCEPT !.trace = <<derive>> \o r.trace]

handlePipelineCommands(h, i, command, args, err) ==
    LET devCtx == deriveContext(h, i)
        derive == Event("devCtx", command, args, devCtx, "devCtx")
        r == CASE command = "run_pipelines" ->
                    executePipelineCommand(h, command, Event("Pipeline", command, args, devCtx, err), err)
               [] command = "build_images" ->
                    executePipelineCommand(h, command, Event("Build", command, args, devCtx, err), err)
               [] command = "create_deployments" ->
                    executePipelineCommand(h, command, Event("Deploy", command, args, devCtx, err), err)
               [] command = "start_dev" ->
                    executePipelineCommand(h, command, Event("StartDev", command, args, devCtx, err), err)
               [] command = "stop_dev" ->
                    executePipelineCommand(h, command, Event("StopDev", command, args, devCtx, err), err)
               [] command = "run_dependencies_pipeline" ->
                    executePipelineCommand(h, command, Event("Dependency", command, args, devCtx, err), err)
               [] OTHER ->
                    [handled |-> FALSE, trace |-> <<>>, stderr |-> <<>>, ret |-> NilError]
    IN [r EXCEPT !.trace = <<derive>> \o r.trace]

\* fallbackCommands returning nil after a successful native cat
fallbackCommandsCatFallsThrough(i, command, args, err) ==
    LET called == Event("fallbackCommands", command, args, NoCtx, "called")
    IN CASE command = "cat" ->
              [trace |-> <<called, Event("Cat", command, args, NoCtx, err)>>,
               stderr |-> IF err # Nil THEN <<err>> ELSE <<>>,
               ret |-> IF err # Nil THEN NewExitStatus(1) ELSE NilError,
               command |-> command]
         [] command = "kubectl" ->
              [trace |-> <<called, Event("EnsureCommand", "kubectl", <<>>, NoCtx,
                                         PathOrErr(KubectlPath, err))>>,
               stderr |-> IF err # Nil THEN <<err>> ELSE <<>>,
               ret |-> IF err # Nil THEN NewExitStatus(127) ELSE NilError,
               command |-> IF err # Nil THEN command ELSE KubectlPath]
         [] command = "helm" ->
              [trace |-> <<called, Event("EnsureCommand", "helm", <<>>, NoCtx,
                                         PathOrErr(HelmPath, err))>>,
               stderr |-> IF err # Nil THEN <<err>> ELSE <<>>,
               ret |-> IF err # Nil THEN NewExitStatus(127) ELSE NilError,
               command |-> IF err # Nil THEN command ELSE HelmPath]
         [] command = "devspace" ->
              [trace |-> <<called, Event("os.Executable", command, <<>>, NoCtx,
                                         PathOrErr(SelfPath, err))>>,
               stderr |-> IF err # Nil THEN <<err>> ELSE <<>>,
               ret |-> IF err # Nil THEN NewExitStatus(1) ELSE NilError,
               command |-> IF err # Nil THEN command ELSE SelfPath]
         [] OTHER ->
              [trace |-> <<called>>, stderr |-> <<>>, ret |-> NilError,
               command |-> command]

\* command in the result is the final value of the function's parameter
\* command, which the cases kubectl, helm and devspace assign to
fallbackCommands(i, command, args, err) ==
    LET called == Event("fallbackCommands", command, args, NoCtx, "called")
    IN CASE command = "cat" ->
              [trace |-> <<called, Event("Cat", command, args, NoCtx, err)>>,
               stderr |-> IF err # Nil THEN <<err>> ELSE <<>>,
               ret |-> IF err # Nil THEN NewExitStatus(1) ELSE NewExitStatus(0),
               command |-> command]
         [] command = "kubectl" ->
              [trace |-> <<called, Event("EnsureCommand", "kubectl", <<>>, NoCtx,
                                         PathOrErr(KubectlPath, err))>>,
               stderr |-> IF err # Nil THEN <<err>> ELSE <<>>,
               ret |-> IF err # Nil THEN NewExitStatus(127) ELSE NilError,
               command |-> IF err # Nil THEN command ELSE KubectlPath]
         [] command = "helm" ->
              [trace |-> <<called, Event("EnsureCommand", "helm", <<>>, NoCtx,
                                         PathOrErr(HelmPath, err))>>,
               stderr |-> IF err # Nil THEN <<err>> ELSE <<>>,
               ret |-> IF err # Nil THEN NewExitStatus(127) ELSE NilError,
               command |-> IF err # Nil THEN command ELSE HelmPath]
         [] command = "devspace" ->
              [trace |-> <<called, Event("os.Executable", command, <<>>, NoCtx,
                                         PathOrErr(SelfPath, err))>>,
               stderr |-> IF err # Nil THEN <<err>> ELSE <<>>,
               ret |-> IF err # Nil THEN NewExitStatus(1) ELSE NilError,
               command |-> IF err # Nil THEN command ELSE SelfPath]
         [] OTHER ->
              [trace |-> <<called>>, stderr |-> <<>>, ret |-> NilError,
               command |-> command]

\* resolveUnreserved asking the fallback provider when the lookup succeeds
resolveUnreservedInverted(i, o, f) ==
    LET look == Event("lookPathDir", i.args[1], <<>>, NoCtx,
                      IF lookPathDir(i, i.args[1]) THEN "found" ELSE "not found")
        d == DefaultExecHandler(i, i.args, o.proc)
    IN IF lookPathDir(i, i.args[1])
       THEN IF f.ret # NilError
            THEN [trace |-> <<look>> \o f.trace, stderr |-> f.stderr, ret |-> f.ret]
            ELSE [trace |-> <<look>> \o f.trace \o d.trace,
                  stderr |-> f.stderr, ret |-> d.ret]
       ELSE [trace |-> <<look>> \o d.trace, stderr |-> <<>>, ret |-> d.ret]

\* ExecHandler after the dispatcher reported "not handled" (the same text in
\* both engines): the local lookup, the fallback provider if the lookup
\* fails, then default process execution with the handler's args.  f is the
\* result of the engine's fallbackCommands for this invocation.
resolveUnreserved(i, o, f) ==
    LET look == Event("lookPathDir", i.args[1], <<>>, NoCtx,
                      IF lookPathDir(i, i.args[1]) THEN "found" ELSE "not found")
        d == DefaultExecHandler(i, i.args, o.proc)
    IN IF ~lookPathDir(i, i.args[1])
       THEN IF f.ret # NilError
            THEN [trace |-> <<look>> \o f.trace, stderr |-> f.stderr, ret |-> f.ret]
            ELSE [trace |-> <<look>> \o f.trace \o d.trace,
                  stderr |-> f.stderr, ret |-> d.ret]
       ELSE [trace |-> <<look>> \o d.trace, stderr |-> <<>>, ret |-> d.ret]

\* afterDispatch returning early only on a non-zero status
afterDispatchIgnoresHandled(i, o, p, f) ==
    IF p.ret.kind = "exitStatus" /\ p.ret.status # 0
    THEN [trace |-> p.trace, stderr |-> p.stderr, ret |-> p.ret]
    ELSE LET r == resolveUnreserved(i, o, f)
         IN [trace |-> p.trace \o r.trace,
             stderr |-> p.stderr \o r.stderr,
             ret |-> r.ret]

\* the outcome of ExecHandler given the dispatcher's result p
afterDispatch(i, o, p, f) ==
    IF p.handled \/ p.ret # NilError
    THEN [trace |-> p.trace, stderr |-> p.stderr, ret |-> p.ret]
    ELSE LET r == resolveUnreserved(i, o, f)
         IN [trace |-> p.trace \o r.trace,
             stderr |-> p.stderr \o r.stderr,
             ret |-> r.ret]

\* ExecHandler rejecting an empty argument list itself
ExecHandlerEmptyRejected(h, i, o) ==
    IF Len(i.args) > 0
    THEN afterDispatch(i, o,
                       handlePipelineCommands(h, i, i.args[1], Tail(i.args), o.err),
                       fallbackCommands(i, i.args[1], Tail(i.args), o.err))
    ELSE [trace |-> <<>>, stderr |-> <<"empty command">>, ret |-> NewExitStatus(1)]

\* The whole of ExecHandler for invocation i; o.err is the result of the one
\* external call the handler makes, o.proc the exit code of a started process.
ExecHandler(h, i, o) ==
    IF Len(i.args) > 0
    THEN afterDispatch(i, o,
                       handlePipelineCommands(h, i, i.args[1], Tail(i.args), o.err),
                       fallbackCommands(i, i.args[1], Tail(i.args), o.err))
    ELSE LET d == DefaultExecHandler(i, i.args, o.proc)
         IN [trace |-> d.trace, stderr |-> <<>>, ret |-> d.ret]

----------------------------------------------------------------------------
(* Reduced engine *)

handleErrorReduced(err) ==
    IF err = Nil
    THEN [stderr |-> <<>>, ret |-> NewExitStatus(0)]
    ELSE [stderr |-> <<err>>, ret |-> NewExitStatus(1)]

deriveContextReduced(h, i) ==
    [context |-> i.ctx,
     workingDir |-> i.dir,
     log |-> NewStreamLogger(i.stdout, h.ctx.log.level)]

\* handlePipelineCommandsReduced with deploy wired to Build
handlePipelineCommandsReducedSwapped(h, i, command, args, err) ==
    LET devCtx == deriveContextReduced(h, i)
        derive == Event("devCtx", command, args, devCtx, "devCtx")
        t == handleErrorReduced(err)
    IN CASE command = "build" ->
              [handled |-> TRUE,
               trace |-> <<derive, Event("Build", command, args, devCtx, err)>>,
               stderr |-> t.stderr, ret |-> t.ret]
         [] command = "deploy" ->
              [handled |-> TRUE,
               trace |-> <<derive, Event("Build", command, args, devCtx, err)>>,
               stderr |-> t.stderr, ret |-> t.ret]
         [] command = "dev" ->
              [handled |-> TRUE,
               trace |-> <<derive, Event("Dev", command, args, devCtx, err)>>,
               stderr |-> t.stderr, ret |-> t.ret]
         [] OTHER ->
              [handled |-> FALSE, trace |-> <<derive>>, stderr |-> <<>>,
               ret |-> NilError]

handlePipelineCommandsReduced(h, i, command, args, err) ==
    LET devCtx == deriveContextReduced(h, i)
        derive == Event("devCtx", command, args, devCtx, "devCtx")
        t == handleErrorReduced(err)
    IN CASE command = "build" ->
              [handled |-> TRUE,
               trace |-> <<derive, Event("Build", command, args, devCtx, err)>>,
               stderr |-> t.stderr, ret |-> t.ret]
         [] command = "deploy" ->
              [handled |-> TRUE,
               trace |-> <<derive, Event("Deploy", command, args, devCtx, err)>>,
               stderr |-> t.stderr, ret |-> t.ret]
         [] command = "dev" ->
              [handled |-> TRUE,
               trace |-> <<derive, Event("Dev", command, args, devCtx, err)>>,
               stderr |-> t.stderr, ret |-> t.ret]
         [] OTHER ->
              [handled |-> FALSE, trace |-> <<derive>>, stderr |-> <<>>,
               ret |-> NilError]

\* the cases cat, kubectl, helm and devspace have the text of the full
\* engine's; the default case is the reduced engine's own
fallbackCommandsReduced(i, command, args, err) ==
    IF command \in {"cat", "kubectl", "helm", "devspace"}
    THEN fallbackCommands(i, command, args, err)
    ELSE [trace |-> <<Event("fallbackCommands", command, args, NoCtx, "called")>>,
          stderr |-> <<"command is not found.">>,
          ret |-> NewExitStatus(127),
          command |-> command]

ExecHandlerReduced(h, i, o) ==
    IF Len(i.args) > 0
    THEN afterDispatch(i, o,
                       handlePipelineCommandsReduced(h, i, i.args[1], Tail(i.args), o.err),
                       fallbackCommandsReduced(i, i.args[1], Tail(i.args), o.err))
    ELSE LET d == DefaultExecHandler(i, i.args, o.proc)
         IN [trace |-> d.trace, stderr |-> <<>>, ret |-> d.ret]

----------------------------------------------------------------------------
(* State machine *)

NoInv == [args |-> <<>>, dir |-> "none", stdout |-> "none", ctx |-> "none",
          local |-> FALSE]

NoOut == [trace |-> <<>>, stderr |-> <<>>, ret |-> NilError]

AmbientLog(level) == [kind |-> "ambient", stream |-> "ambient", level |-> level]

AmbientCtx(level) ==
    [context |-> "run", workingDir |-> "/work", log |-> AmbientLog(level)]

\* NewExecHandler of the full engine
NewExecHandler(ctx, stdout, enablePipelineCommands) ==
    [engine |-> "full", ctx |-> ctx, stdout |-> stdout,
     enablePipelineCommands |-> enablePipelineCommands]

\* NewExecHandler of the reduced engine: no stdout, no gate
NewExecHandlerReduced(ctx) ==
    [engine |-> "reduced", ctx |-> ctx, stdout |-> Nil,
     enablePipelineCommands |-> FALSE]

Oracles == [err : Errs, proc : {0, 1}]

Tools == {"kubectl", "helm"}

NoPrev == [dir |-> "none", ctx |-> "none"]

\* the variables of the run with a downloader, where they are not modelled
RunIdle ==
    /\ cache = [t \in Tools |-> Nil]
    /\ acq = <<>>
    /\ prev = NoPrev

IdleProc == [pc |-> "idle", inv |-> NoInv, o |-> [err |-> Nil, proc |-> 0],
             trace |-> <<>>, pend |-> <<>>, handled |-> FALSE, ret |-> NilError]

\* the variables of the concurrent steps, where they are not modelled
ConcIdle ==
    /\ ps = [p \in Procs |-> IdleProc]
    /\ streams = [p \in Procs |-> <<>>]

IdleCaller == [pc |-> "idle", fn |-> "none", ret |-> <<>>, res |-> <<>>, err |-> Nil]

\* the package variables of upgrade before any call
UpgradeFresh ==
    /\ latestVersion = <<>>
    /\ latestVersionErr = Nil
    /\ latestVersionOnce = "fresh"
    /\ detections = 0
    /\ callers = [c \in Callers |-> IdleCaller]
    /\ crashed = FALSE

\* the variables of the upgrade package, where they are not modelled
UpgradeIdle == version = <<>> /\ rawVersion = <<>> /\ verText = <<>> /\ UpgradeFresh

LocalManifest == "manifests/a"

UrlManifest == "https://host/b.yaml"

\* the zero DeploymentCache, returned for a deployment without an entry
NoDeploymentCache ==
    [present |-> FALSE, KubectlManifestsHash |-> <<>>, DeploymentConfigHash |-> <<>>]

NoDres ==
    [op |-> "none", manifests |-> <<>>, before |-> NoDeploymentCache,
     after |-> NoDeploymentCache, manifestsHash |-> <<>>,
     deploymentConfigHash |-> <<>>, redeploy |-> {}, applied |-> <<>>,
     skipped |-> <<>>, deleted |-> <<>>, wasDeployed |-> FALSE, err |-> Nil]

\* the variables of the kubectl deployer, where they are not modelled
DeployIdle ==
    /\ deployer = [Manifests |-> <<>>, DeploymentConfig |-> "cfg1"]
    /\ files = [m \in {LocalManifest} |-> 1]
    /\ remoteCache = NoDeploymentCache
    /\ dres = NoDres

\* every variable outside the single-invocation handler model
outsideHandler == <<rvars, cvars, uvars, dvars>>

OutsideHandlerIdle == RunIdle /\ ConcIdle /\ UpgradeIdle /\ DeployIdle

\* every variable outside the model of a run
outsideRun == <<cvars, uvars, dvars>>

OutsideRunIdle == ConcIdle /\ UpgradeIdle /\ DeployIdle

\* every variable outside the model of concurrent steps
outsideConc == <<pc, inv, out, rvars, uvars, dvars>>

OutsideConcIdle ==
    pc = "idle" /\ inv = NoInv /\ out = NoOut /\ RunIdle /\ UpgradeIdle /\ DeployIdle

HandlerIdle == e = NewExecHandlerReduced(AmbientCtx("info")) /\ pc = "idle" /\ inv = NoInv /\ out = NoOut

\* every variable outside the model of the upgrade package
outsideUpgrade == <<hvars, rvars, cvars, dvars>>

OutsideUpgradeIdle == HandlerIdle /\ RunIdle /\ ConcIdle /\ DeployIdle

\* every variable outside the model of the kubectl deployer
outsideDeploy == <<hvars, rvars, cvars, uvars>>

OutsideDeployIdle == HandlerIdle /\ RunIdle /\ ConcIdle /\ UpgradeIdle

Init ==
    /\ e \in {NewExecHandler(AmbientCtx(l), s, b) :
                 l \in Levels, s \in {Nil, TopStdout}, b \in BOOLEAN}
             \cup {NewExecHandlerReduced(AmbientCtx(l)) : l \in Levels}
    /\ pc = "idle"
    /\ inv = NoInv
    /\ out = NoOut
    /\ OutsideHandlerIdle

\* the interpreter is about to execute a command and calls the handler
Invoke ==
    /\ pc = "idle"
    /\ \E a \in ArgLists, d \in Dirs, s \in Streams, c \in Scopes, l \in BOOLEAN :
          inv' = [args |-> a, dir |-> d, stdout |-> s, ctx |-> c, local |-> l]
    /\ pc' = "called"
    /\ UNCHANGED <<e, out>>
    /\ UNCHANGED outsideHandler

\* ExecHandler clearing the gate once it has handled an invocation
ExecHandlerActionClearsGate ==
    /\ pc = "called"
    /\ e.engine = "full"
    /\ \E o \in Oracles : out' = ExecHandler(e, inv, o)
    /\ pc' = "done"
    /\ e' = [e EXCEPT !.enablePipelineCommands = FALSE]
    /\ UNCHANGED inv
    /\ UNCHANGED outsideHandler

ExecHandlerAction ==
    /\ pc = "called"
    /\ e.engine = "full"
    /\ \E o \in Oracles : out' = ExecHandler(e, inv, o)
    /\ pc' = "done"
    /\ UNCHANGED <<e, inv>>
    /\ UNCHANGED outsideHandler

ExecHandlerReducedAction ==
    /\ pc = "called"
    /\ e.engine = "reduced"
    /\ \E o \in Oracles : out' = ExecHandlerReduced(e, inv, o)
    /\ pc' = "done"
    /\ UNCHANGED <<e, inv>>
    /\ UNCHANGED outsideHandler

\* the interpreter consumes the returned value
Return ==
    /\ pc = "done"
    /\ pc' = "idle"
    /\ inv' = NoInv
    /\ out' = NoOut
    /\ UNCHANGED e
    /\ UNCHANGED outsideHandler

Next ==
    \/ Invoke
    \/ ExecHandlerAction
    \/ ExecHandlerReducedAction
    \/ Return

Spec == Init /\ [][Next]_vars

----------------------------------------------------------------------------
(* A run: invocations one after another, with the caching downloader *)

ToolPath(tool) == IF tool = "kubectl" THEN KubectlPath ELSE HelmPath

\* EnsureCommand always acquiring the binary
EnsureCommandNoCache(c, tool, err) ==
    IF err = Nil
    THEN [path |-> ToolPath(tool), err |-> Nil, acquired |-> TRUE,
          cache |-> [c EXCEPT ![tool] = ToolPath(tool)]]
    ELSE [path |-> "", err |-> err, acquired |-> TRUE, cache |-> c]

\* Downloader.EnsureCommand: the resolved path is kept across the calls of
\* a run; err is the result of an acquisition, should one be needed
EnsureCommand(c, tool, err) ==
    IF c[tool] # Nil
    THEN [path |-> c[tool], err |-> Nil, acquired |-> FALSE, cache |-> c]
    ELSE IF err = Nil
    THEN [path |-> ToolPath(tool), err |-> Nil, acquired |-> TRUE,
          cache |-> [c EXCEPT ![tool] = ToolPath(tool)]]
    ELSE [path |-> "", err |-> err, acquired |-> TRUE, cache |-> c]

RunNames == {"kubectl", "helm", "build_images", "deploy", "ls"}

RunArgLists == {<<n>> \o r : n \in RunNames, r \in {<<>>, <<"myapp">>}}

\* the tool whose downloader invocation i consults, if any
ToolOf(i) ==
    IF Len(i.args) > 0 /\ i.args[1] \in Tools THEN i.args[1] ELSE "none"

\* the results the handler's external calls give in invocation i: those of
\* o, with EnsureCommand answering from the cache c
RunOracle(c, i, o) ==
    IF ToolOf(i) = "none"
    THEN o
    ELSE [o EXCEPT !.err = EnsureCommand(c, ToolOf(i), o.err).err]

RunInit ==
    /\ e \in {NewExecHandler(AmbientCtx(l), s, b) :
                 l \in Levels, s \in {Nil, TopStdout}, b \in BOOLEAN}
             \cup {NewExecHandlerReduced(AmbientCtx(l)) : l \in Levels}
    /\ pc = "idle"
    /\ inv = NoInv
    /\ out = NoOut
    /\ RunIdle
    /\ OutsideRunIdle

RunInvoke ==
    /\ pc = "idle"
    /\ \E a \in RunArgLists, d \in Dirs, s \in Streams, c \in Scopes, l \in BOOLEAN :
          inv' = [args |-> a, dir |-> d, stdout |-> s, ctx |-> c, local |-> l]
    /\ pc' = "called"
    /\ UNCHANGED <<e, out, rvars>>
    /\ UNCHANGED outsideRun

\* the downloader's state after the handler returned r for invocation i
RunDownloader(r, i, o) ==
    IF \E k \in DOMAIN r.trace : r.trace[k].op = "EnsureCommand"
    THEN LET dl == EnsureCommand(cache, ToolOf(i), o.err)
         IN /\ cache' = dl.cache
            /\ acq' = IF dl.acquired THEN <<ToolOf(i)>> ELSE <<>>
    ELSE /\ cache' = cache
         /\ acq' = <<>>

RunExecHandlerAction ==
    /\ pc = "called"
    /\ e.engine = "full"
    /\ \E o \in Oracles :
          /\ out' = ExecHandler(e, inv, RunOracle(cache, inv, o))
          /\ RunDownloader(ExecHandler(e, inv, RunOracle(cache, inv, o)), inv, o)
    /\ pc' = "done"
    /\ UNCHANGED <<e, inv, prev>>
    /\ UNCHANGED outsideRun

RunExecHandlerReducedAction ==
    /\ pc = "called"
    /\ e.engine = "reduced"
    /\ \E o \in Oracles :
          /\ out' = ExecHandlerReduced(e, inv, RunOracle(cache, inv, o))
          /\ RunDownloader(ExecHandlerReduced(e, inv, RunOracle(cache, inv, o)), inv, o)
    /\ pc' = "done"
    /\ UNCHANGED <<e, inv, prev>>
    /\ UNCHANGED outsideRun

RunReturn ==
    /\ pc = "done"
    /\ pc' = "idle"
    /\ prev' = [dir |-> inv.dir, ctx |-> inv.ctx]
    /\ inv' = NoInv
    /\ out' = NoOut
    /\ acq' = <<>>
    /\ UNCHANGED <<e, cache>>
    /\ UNCHANGED outsideRun

RunNext ==
    \/ RunInvoke
    \/ RunExecHandlerAction
    \/ RunExecHandlerReducedAction
    \/ RunReturn

SpecRun == RunInit /\ [][RunNext]_vars

----------------------------------------------------------------------------
(* Concurrently scheduled steps calling the same handler *)

\* invocation of step p: its error stream is the stream p
ConcInvs(p) ==
    {[args |-> <<n, "myapp">>, dir |-> d.dir, stdout |-> d.stdout,
      ctx |-> "step1", local |-> FALSE, stderr |-> p] :
        n \in {"build_images", "deploy", "cat", "totally-unknown-tool"},
        d \in {[dir |-> "/work", stdout |-> TopStdout],
               [dir |-> "/work/sub", stdout |-> "redirect"]}}

ConcOracles == [err : {Nil, "E1"}, proc : {0}]

Active(q) == ps[q].pc # "idle"

\* interp.HandlerCtx of whichever invocation is in progress first
HandlerCtxShared(p) ==
    ps[CHOOSE q \in Procs : Active(q) /\ \A r \in Procs : Active(r) => q <= r].inv

\* interp.HandlerCtx(ctx): the handler context travelling with the ctx that
\* ExecHandler was called with
HandlerCtx(p) == ps[p].inv

\* the invocation as the code of step p sees it: its own args, and
\* directory, streams and environment from the handler context
Seen(p) == [HandlerCtx(p) EXCEPT !.args = ps[p].inv.args]

Fprintln(w, p, lines) ==
    [streams EXCEPT ![w] = @ \o [k \in 1..Len(lines) |-> [by |-> p, line |-> lines[k]]]]

ConcInit ==
    /\ e \in {NewExecHandler(AmbientCtx("info"), TopStdout, TRUE),
               NewExecHandler(AmbientCtx("info"), TopStdout, FALSE),
               NewExecHandlerReduced(AmbientCtx("info"))}
    /\ ConcIdle
    /\ OutsideConcIdle

\* the interpreter calls ExecHandler for step p
ConcInvoke(p) ==
    /\ ps[p].pc = "idle"
    /\ \E i \in ConcInvs(p), o \in ConcOracles :
          ps' = [ps EXCEPT ![p] = [IdleProc EXCEPT !.pc = "called", !.inv = i, !.o = o]]
    /\ UNCHANGED <<e, streams, outsideConc>>

\* handlePipelineCommands up to the native call it makes
ConcDispatch(p) ==
    /\ ps[p].pc = "called"
    /\ LET i == Seen(p)
           r == IF e.engine = "full"
                THEN handlePipelineCommands(e, i, i.args[1], Tail(i.args), ps[p].o.err)
                ELSE handlePipelineCommandsReduced(e, i, i.args[1], Tail(i.args), ps[p].o.err)
       IN ps' = [ps EXCEPT ![p].pc = "translate",
                           ![p].trace = r.trace,
                           ![p].pend = r.stderr,
                           ![p].handled = r.handled \/ r.ret # NilError,
                           ![p].ret = r.ret]
    /\ UNCHANGED <<e, streams, outsideConc>>

\* the native call (if any) has returned: the diagnostic goes to hc.Stderr
\* and ExecHandler returns, or goes on to the lookup
ConcTranslate(p) ==
    /\ ps[p].pc = "translate"
    /\ streams' = Fprintln(HandlerCtx(p).stderr, p, ps[p].pend)
    /\ ps' = [ps EXCEPT ![p].pc = IF ps[p].handled THEN "done" ELSE "resolve",
                        ![p].pend = <<>>]
    /\ UNCHANGED <<e, outsideConc>>

\* the lookup, the fallback provider and default process execution
ConcResolve(p) ==
    /\ ps[p].pc = "resolve"
    /\ LET i == Seen(p)
           f == IF e.engine = "full"
                THEN fallbackCommands(i, i.args[1], Tail(i.args), ps[p].o.err)
                ELSE fallbackCommandsReduced(i, i.args[1], Tail(i.args), ps[p].o.err)
           r == resolveUnreserved(i, ps[p].o, f)
       IN /\ streams' = Fprintln(HandlerCtx(p).stderr, p, r.stderr)
          /\ ps' = [ps EXCEPT ![p].pc = "done",
                              ![p].trace = @ \o r.trace,
                              ![p].ret = r.ret]
    /\ UNCHANGED <<e, outsideConc>>

\* the interpreter consumes the result of step p and drops its streams
ConcReturn(p) ==
    /\ ps[p].pc = "done"
    /\ ps' = [ps EXCEPT ![p] = IdleProc]
    /\ streams' = [streams EXCEPT ![p] = <<>>]
    /\ UNCHANGED <<e, outsideConc>>

ConcNext ==
    \/ \E p \in Procs : ConcInvoke(p)
    \/ \E p \in Procs : ConcDispatch(p)
    \/ \E p \in Procs : ConcTranslate(p)
    \/ \E p \in Procs : ConcResolve(p)
    \/ \E p \in Procs : ConcReturn(p)

SpecConc == ConcInit /\ [][ConcNext]_vars

----------------------------------------------------------------------------
(* pkg/devspace/upgrade: the memoised check for a newer version *)

\* version texts are sequences of one-character strings
DigitChars == <<"0", "1", "2", "3", "4", "5", "6", "7", "8", "9">>

IsDigit(c) == \E k \in DOMAIN DigitChars : DigitChars[k] = c

DigitVal(c) == (CHOOSE k \in DOMAIN DigitChars : DigitChars[k] = c) - 1

RECURSIVE NumVal(_)
NumVal(cs) ==
    IF cs = <<>> THEN 0
    ELSE 10 * NumVal(SubSeq(cs, 1, Len(cs) - 1)) + DigitVal(cs[Len(cs)])

RECURSIVE NumStr(_)
NumStr(n) ==
    IF n < 10 THEN <<DigitChars[n + 1]>>
    ELSE NumStr(n \div 10) \o <<DigitChars[(n % 10) + 1]>>

\* a numeric part of a semantic version: digits, no leading zero
IsNumeric(cs) ==
    /\ Len(cs) > 0
    /\ \A k \in DOMAIN cs : IsDigit(cs[k])
    /\ Len(cs) > 1 => cs[1] # "0"

\* semver.Parse for texts without pre-release or build suffix:
\* major.minor.patch, split at the first two dots
SemverParse(v) ==
    LET dots == {k \in DOMAIN v : v[k] = "."}
    IN IF Cardinality(dots) < 2
       THEN [ok |-> FALSE, v |-> <<0, 0, 0>>]
       ELSE LET d1 == CHOOSE k \in dots : \A j \in dots : k <= j
                d2 == CHOOSE k \in dots \ {d1} : \A j \in dots \ {d1} : k <= j
                major == SubSeq(v, 1, d1 - 1)
                minor == SubSeq(v, d1 + 1, d2 - 1)
                patch == SubSeq(v, d2 + 1, Len(v))
            IN IF IsNumeric(major) /\ IsNumeric(minor) /\ IsNumeric(patch)
               THEN [ok |-> TRUE, v |-> <<NumVal(major), NumVal(minor), NumVal(patch)>>]
               ELSE [ok |-> FALSE, v |-> <<0, 0, 0>>]

\* semver.Version.String()
SemverString(t) == NumStr(t[1]) \o <<".">> \o NumStr(t[2]) \o <<".">> \o NumStr(t[3])

V500 == <<"5", ".", "0", ".", "0">>
V600 == <<"6", ".", "0", ".", "0">>
V5001 == <<"5", ".", "0", ".", "0", ".", "1">>

\* s[a..b] is a non-empty run of digits: \d+
Digits(s, a, b) == a <= b /\ \A k \in a..b : IsDigit(s[k])

\* reVersion (\d+\.\d+\.\d+) has a match in s that starts at position i
MatchAt(s, i) ==
    \E j \in (i + 1)..Len(s) : \E k \in (j + 2)..(Len(s) - 1) :
        /\ s[j] = "." /\ s[k] = "."
        /\ Digits(s, i, j - 1) /\ Digits(s, j + 1, k - 1) /\ IsDigit(s[k + 1])

\* reVersion.FindStringIndex(s)[0] + 1: the start of the leftmost match,
\* 0 for nil
FindStringIndex(s) ==
    IF \E i \in DOMAIN s : MatchAt(s, i)
    THEN CHOOSE i \in DOMAIN s : MatchAt(s, i) /\ \A h \in 1..(i - 1) : ~MatchAt(s, h)
    ELSE 0

eraseVersionPrefix(v) ==
    LET start == FindStringIndex(v)
    IN IF start = 0
       THEN [text |-> v, err |-> "Version not adopting semver"]
       ELSE IF start - 1 > 0
       THEN [text |-> SubSeq(v, start, Len(v)), err |-> Nil]
       ELSE [text |-> v, err |-> Nil]

\* SetVersion assigning rawVersion before the text is checked
SetVersionRawFirst(t, cur) ==
    IF Len(t) > 0
    THEN LET prefixed == IF t[1] # "v" THEN <<"v">> \o t ELSE t
             r == eraseVersionPrefix(prefixed)
         IN IF r.err # Nil
            THEN [cur EXCEPT !.rawVersion = prefixed]
            ELSE [version |-> r.text, rawVersion |-> prefixed]
    ELSE cur

\* SetVersion(verText): the values of version and rawVersion after the call
SetVersion(t, cur) ==
    IF Len(t) > 0
    THEN LET prefixed == IF t[1] # "v" THEN <<"v">> \o t ELSE t
             r == eraseVersionPrefix(prefixed)
         IN IF r.err # Nil
            THEN cur
            ELSE [version |-> r.text, rawVersion |-> prefixed]
    ELSE cur

\* the texts SetVersion is called with: "", "v5.0.0", "6.0.0", "v5.0.0.1",
\* "dev" and "rel-5.0.0"
VerTexts ==
    {<<>>, <<"v">> \o V500, V600, <<"v">> \o V5001, <<"d", "e", "v">>,
     <<"r", "e", "l", "-">> \o V500}

\* results of selfupdate.DetectLatest(githubSlug): (latest, found, err)
Detections ==
    [latest : {<<5, 0, 0>>, <<6, 0, 0>>}, found : BOOLEAN, err : {Nil, "E1"}]

UpgradeInit ==
    /\ version = <<>>
    /\ rawVersion = <<>>
    /\ verText = <<>>
    /\ UpgradeFresh
    /\ OutsideUpgradeIdle

\* the program sets its version at start, before any command runs
SetVersionAction ==
    /\ ~crashed
    /\ latestVersionOnce = "fresh"
    /\ \A c \in Callers : callers[c].pc = "idle"
    /\ \E t \in VerTexts :
          /\ verText' = t
          /\ version' = SetVersion(t, [version |-> version, rawVersion |-> rawVersion]).version
          /\ rawVersion' = SetVersion(t, [version |-> version, rawVersion |-> rawVersion]).rawVersion
    /\ UNCHANGED <<latestVersion, latestVersionErr, latestVersionOnce,
                   detections, callers, crashed, outsideUpgrade>>

\* semver.Version.Compare
SemverCompare(a, b) ==
    IF a = b THEN 0
    ELSE IF \/ a[1] > b[1]
            \/ a[1] = b[1] /\ a[2] > b[2]
            \/ a[1] = b[1] /\ a[2] = b[2] /\ a[3] > b[3]
    THEN 1
    ELSE -1

\* results of selfupdate.UpdateSelf(v, githubSlug): (latest, err)
Updates == [latest : {<<5, 0, 0>>, <<6, 0, 0>>}, err : {Nil, "E2"}]

\* goroutine c is not inside a call
Free(c) ==
    \/ callers[c].pc \in {"idle", "done"}
    \/ callers[c].pc = "returned" /\ callers[c].fn = "CheckForNewerVersion"

\* a goroutine calls CheckForNewerVersion
CheckForNewerVersionCall(c) ==
    /\ ~crashed
    /\ Free(c)
    /\ callers' = [callers EXCEPT ![c] =
                      [IdleCaller EXCEPT !.pc = "once", !.fn = "CheckForNewerVersion"]]
    /\ UNCHANGED <<version, rawVersion, verText, latestVersion, latestVersionErr, latestVersionOnce,
                   detections, crashed, outsideUpgrade>>

\* a plain call of the function in place of latestVersionOnce.Do
OnceDoEveryCall(c) ==
    /\ ~crashed
    /\ callers[c].pc = "once"
    /\ latestVersionOnce # "running"
    /\ latestVersionOnce' = "running"
    /\ callers' = [callers EXCEPT ![c].pc = "detect"]
    /\ UNCHANGED <<version, rawVersion, verText, latestVersion, latestVersionErr,
                   detections, crashed, outsideUpgrade>>

\* latestVersionOnce.Do: the first caller runs the function, a caller
\* arriving while it runs waits, a caller arriving after it returns at once
OnceDo(c) ==
    /\ ~crashed
    /\ callers[c].pc = "once"
    /\ latestVersionOnce # "running"
    /\ IF latestVersionOnce = "fresh"
       THEN /\ latestVersionOnce' = "running"
            /\ callers' = [callers EXCEPT ![c].pc = "detect"]
       ELSE /\ latestVersionOnce' = latestVersionOnce
            /\ callers' = [callers EXCEPT ![c].pc = "read"]
    /\ UNCHANGED <<version, rawVersion, verText, latestVersion, latestVersionErr,
                   detections, crashed, outsideUpgrade>>

\* the function given to latestVersionOnce.Do
DetectLatest(c) ==
    /\ ~crashed
    /\ callers[c].pc = "detect"
    /\ detections' = IF detections < MaxDetections THEN detections + 1 ELSE detections
    /\ latestVersionOnce' = "done"
    /\ \E d \in Detections :
          IF d.err # Nil
          THEN /\ latestVersionErr' = d.err
               /\ callers' = [callers EXCEPT ![c].pc = "read"]
               /\ UNCHANGED <<latestVersion, crashed>>
          ELSE IF ~SemverParse(version).ok
          THEN \* semver.MustParse panics
               /\ crashed' = TRUE
               /\ callers' = [callers EXCEPT ![c].pc = "panicked"]
               /\ UNCHANGED <<latestVersion, latestVersionErr>>
          ELSE IF ~d.found \/ d.latest = SemverParse(version).v
          THEN /\ callers' = [callers EXCEPT ![c].pc = "read"]
               /\ UNCHANGED <<latestVersion, latestVersionErr, crashed>>
          ELSE /\ latestVersion' = SemverString(d.latest)
               /\ callers' = [callers EXCEPT ![c].pc = "read"]
               /\ UNCHANGED <<latestVersionErr, crashed>>
    /\ UNCHANGED <<version, rawVersion, verText, outsideUpgrade>>

\* return latestVersion, latestVersionErr
CheckForNewerVersionReturn(c) ==
    /\ ~crashed
    /\ callers[c].pc = "read"
    /\ callers' = [callers EXCEPT ![c].pc = "returned",
                                  ![c].ret = <<latestVersion, latestVersionErr>>]
    /\ UNCHANGED <<version, rawVersion, verText, latestVersion, latestVersionErr, latestVersionOnce,
                   detections, crashed, outsideUpgrade>>

\* NewerVersionAvailable without the comparison of the two versions
NewerVersionAvailableUncompared(v, latestStableVersion, err) ==
    IF latestStableVersion # <<>> /\ err = Nil
    THEN latestStableVersion
    ELSE <<>>

\* NewerVersionAvailable after CheckForNewerVersion returned
\* (latestStableVersion, err): the text it returns
NewerVersionAvailable(v, latestStableVersion, err) ==
    IF /\ latestStableVersion # <<>> /\ err = Nil
       /\ SemverParse(v).ok
       /\ SemverParse(latestStableVersion).ok
       /\ SemverCompare(SemverParse(latestStableVersion).v, SemverParse(v).v) = 1
    THEN latestStableVersion
    ELSE <<>>

\* a goroutine calls NewerVersionAvailable: with the version unset it
\* returns "" at once, else it calls CheckForNewerVersion
NewerVersionAvailableCall(c) ==
    /\ ~crashed
    /\ Free(c)
    /\ callers' = [callers EXCEPT ![c] =
                      IF version # <<>>
                      THEN [IdleCaller EXCEPT !.pc = "once", !.fn = "NewerVersionAvailable"]
                      ELSE [IdleCaller EXCEPT !.pc = "done", !.fn = "NewerVersionAvailable"]]
    /\ UNCHANGED <<version, rawVersion, verText, latestVersion, latestVersionErr,
                   latestVersionOnce, detections, crashed, outsideUpgrade>>

NewerVersionAvailableReturn(c) ==
    /\ ~crashed
    /\ callers[c].fn = "NewerVersionAvailable"
    /\ callers[c].pc = "returned"
    /\ callers' = [callers EXCEPT
                      ![c].pc = "done",
                      ![c].res = NewerVersionAvailable(version, callers[c].ret[1],
                                                       callers[c].ret[2])]
    /\ UNCHANGED <<version, rawVersion, verText, latestVersion, latestVersionErr,
                   latestVersionOnce, detections, crashed, outsideUpgrade>>

\* a goroutine calls Upgrade, which calls CheckForNewerVersion first
UpgradeCall(c) ==
    /\ ~crashed
    /\ Free(c)
    /\ callers' = [callers EXCEPT ![c] =
                      [IdleCaller EXCEPT !.pc = "once", !.fn = "Upgrade"]]
    /\ UNCHANGED <<version, rawVersion, verText, latestVersion, latestVersionErr,
                   latestVersionOnce, detections, crashed, outsideUpgrade>>

\* Upgrade after CheckForNewerVersion returned (newerVersion, err)
UpgradeReturn(c) ==
    /\ ~crashed
    /\ callers[c].fn = "Upgrade"
    /\ callers[c].pc = "returned"
    /\ IF callers[c].ret[2] # Nil
       THEN /\ callers' = [callers EXCEPT ![c].pc = "done", ![c].err = callers[c].ret[2]]
            /\ UNCHANGED crashed
       ELSE IF callers[c].ret[1] = <<>>
       THEN /\ callers' = [callers EXCEPT ![c].pc = "done", ![c].err = Nil]
            /\ UNCHANGED crashed
       ELSE IF ~SemverParse(version).ok
       THEN \* semver.MustParse panics
            /\ crashed' = TRUE
            /\ callers' = [callers EXCEPT ![c].pc = "panicked"]
       ELSE /\ \E u \in Updates :
                  callers' = [callers EXCEPT ![c].pc = "done", ![c].err = u.err]
            /\ UNCHANGED crashed
    /\ UNCHANGED <<version, rawVersion, verText, latestVersion, latestVersionErr,
                   latestVersionOnce, detections, outsideUpgrade>>

UpgradeNext ==
    \/ SetVersionAction
    \/ \E c \in Callers : NewerVersionAvailableCall(c)
    \/ \E c \in Callers : NewerVersionAvailableReturn(c)
    \/ \E c \in Callers : UpgradeCall(c)
    \/ \E c \in Callers : UpgradeReturn(c)
    \/ \E c \in Callers : CheckForNewerVersionCall(c)
    \/ \E c \in Callers : OnceDo(c)
    \/ \E c \in Callers : DetectLatest(c)
    \/ \E c \in Callers : CheckForNewerVersionReturn(c)

SpecUpgrade == UpgradeInit /\ [][UpgradeNext]_vars

----------------------------------------------------------------------------
(* The kubectl manifest deployer *)

ManifestNames == {LocalManifest, UrlManifest}

\* strings.HasPrefix(manifest, "http://") || strings.HasPrefix(manifest, "https://")
IsUrl(manifest) == manifest = UrlManifest

\* hash.String(s)
HashString(str) == <<"string", str, 0>>

\* hash.Directory(path): depends on what the path holds now
HashDirectory(fs, path) == <<"directory", path, fs[path]>>

\* what can go wrong in one Deploy: nothing, or the first failure, in
\* hash.Directory, yaml.Marshal, getReplacedManifest or kubectl apply
Failures(n) ==
    {[phase |-> "none", idx |-> 0], [phase |-> "marshal", idx |-> 0]}
    \cup [phase : {"hash", "build", "apply"}, idx : 1..n]

\* the results Deploy gets from outside: the failure, and the manifests
\* for which getReplacedManifest reports shouldRedeploy
DeployOracles(n) == [fail : Failures(n), redeploy : SUBSET (1..n)]

Fails(o, phase, k) == o.fail = [phase |-> phase, idx |-> k]

\* the first loop of Deploy from manifest k on: acc.hash is manifestsHash
RECURSIVE HashFrom(_, _, _, _, _)
HashFrom(M, fs, o, k, acc) ==
    IF k > Len(M) THEN acc
    ELSE IF IsUrl(M[k])
    THEN HashFrom(M, fs, o, k + 1, [acc EXCEPT !.hash = @ \o <<HashString(M[k])>>])
    ELSE IF Fails(o, "hash", k)
    THEN [acc EXCEPT !.err = "Error hashing"]
    ELSE HashFrom(M, fs, o, k + 1, [acc EXCEPT !.hash = @ \o <<HashDirectory(fs, M[k])>>])

\* forceDeploy as the commented-out line computes it
forceDeployFromHashes(deployCache, manifestsHash, deploymentConfigHash) ==
    \/ deployCache.KubectlManifestsHash # manifestsHash
    \/ deployCache.DeploymentConfigHash # deploymentConfigHash

\* forceDeploy := true
forceDeploy(deployCache, manifestsHash, deploymentConfigHash) == TRUE

\* the second loop of Deploy from manifest k on
RECURSIVE ApplyFrom(_, _, _, _, _)
ApplyFrom(M, o, force, k, acc) ==
    IF k > Len(M) THEN acc
    ELSE IF Fails(o, "build", k)
    THEN [acc EXCEPT !.err = "build manifests",
                     !.wasDeployed = FALSE]
    ELSE IF (k \in o.redeploy) \/ force
    THEN IF Fails(o, "apply", k)
         THEN [acc EXCEPT !.err = "kubectl apply",
                          !.wasDeployed = FALSE]
         ELSE ApplyFrom(M, o, force, k + 1,
                        [acc EXCEPT !.applied = Append(@, M[k]), !.wasDeployed = TRUE])
    ELSE ApplyFrom(M, o, force, k + 1, [acc EXCEPT !.skipped = Append(@, M[k])])

\* Deploy storing the hashes although an apply failed
DeployStoresOnError(d, deployCache, fs, o) ==
    LET start == [NoDres EXCEPT !.op = "Deploy", !.manifests = d.Manifests,
                                !.before = deployCache, !.after = deployCache,
                                !.redeploy = o.redeploy]
        h == HashFrom(d.Manifests, fs, o, 1, [hash |-> <<>>, err |-> Nil])
        deploymentConfigHash == HashString(d.DeploymentConfig)
    IN IF h.err # Nil
       THEN [start EXCEPT !.err = h.err]
       ELSE IF Fails(o, "marshal", 0)
       THEN [start EXCEPT !.manifestsHash = h.hash, !.err = "marshal deployment config"]
       ELSE LET hashed == [start EXCEPT !.manifestsHash = h.hash,
                                        !.deploymentConfigHash = deploymentConfigHash]
                a == ApplyFrom(d.Manifests, o,
                               forceDeploy(deployCache, h.hash, deploymentConfigHash),
                               1, hashed)
            IN [a EXCEPT !.after = [present |-> TRUE,
                                    KubectlManifestsHash |-> h.hash,
                                    DeploymentConfigHash |-> deploymentConfigHash]]

\* DeployConfig.Deploy: what it applied, skipped and returned, and the
\* deployment cache entry it leaves (after)
Deploy(d, deployCache, fs, o) ==
    LET start == [NoDres EXCEPT !.op = "Deploy", !.manifests = d.Manifests,
                                !.before = deployCache, !.after = deployCache,
                                !.redeploy = o.redeploy]
        h == HashFrom(d.Manifests, fs, o, 1, [hash |-> <<>>, err |-> Nil])
        deploymentConfigHash == HashString(d.DeploymentConfig)
    IN IF h.err # Nil
       THEN [start EXCEPT !.err = h.err]
       ELSE IF Fails(o, "marshal", 0)
       THEN [start EXCEPT !.manifestsHash = h.hash, !.err = "marshal deployment config"]
       ELSE LET hashed == [start EXCEPT !.manifestsHash = h.hash,
                                        !.deploymentConfigHash = deploymentConfigHash]
                a == ApplyFrom(d.Manifests, o,
                               forceDeploy(deployCache, h.hash, deploymentConfigHash),
                               1, hashed)
            IN IF a.err # Nil
               THEN a
               ELSE [a EXCEPT !.after = [present |-> TRUE,
                                         KubectlManifestsHash |-> h.hash,
                                         DeploymentConfigHash |-> deploymentConfigHash]]

\* what can go wrong in one Delete: nothing, or the first failure, in
\* getReplacedManifest or kubectl delete
DeleteOracles(n) ==
    {[phase |-> "none", idx |-> 0]} \cup [phase : {"build", "delete"}, idx : 1..n]

\* the loop of Delete, from the first manifest up
RECURSIVE DeleteFromForward(_, _, _, _)
DeleteFromForward(M, o, i, acc) ==
    LET k == Len(M) + 1 - i
    IN IF i < 1 THEN acc
       ELSE IF o = [phase |-> "build", idx |-> i] \/ o = [phase |-> "delete", idx |-> i]
       THEN [acc EXCEPT !.err = "E1"]
       ELSE DeleteFromForward(M, o, i - 1, [acc EXCEPT !.deleted = Append(@, M[k])])

\* the loop of Delete from manifest i down: for i := len(d.Manifests) - 1; i >= 0; i--
RECURSIVE DeleteFrom(_, _, _, _)
DeleteFrom(M, o, i, acc) ==
    IF i < 1 THEN acc
    ELSE IF o = [phase |-> "build", idx |-> i] \/ o = [phase |-> "delete", idx |-> i]
    THEN [acc EXCEPT !.err = "E1"]
    ELSE DeleteFrom(M, o, i - 1, [acc EXCEPT !.deleted = Append(@, M[i])])

\* DeployConfig.Delete: what it deleted and returned, and the deployment
\* cache entry it leaves (after)
Delete(d, deployCache, o) ==
    LET start == [NoDres EXCEPT !.op = "Delete", !.manifests = d.Manifests,
                                !.before = deployCache, !.after = deployCache]
        a == DeleteFrom(d.Manifests, o, Len(d.Manifests), start)
    IN IF a.err # Nil
       THEN a
       ELSE [a EXCEPT !.after = NoDeploymentCache]

DeployInit ==
    /\ deployer \in [Manifests : SeqsUpTo(ManifestNames, MaxManifests),
                     DeploymentConfig : {"cfg1"}]
    /\ files = [m \in {LocalManifest} |-> 1]
    /\ remoteCache = NoDeploymentCache
    /\ dres = NoDres
    /\ OutsideDeployIdle

DeployAction ==
    /\ \E o \in DeployOracles(Len(deployer.Manifests)) :
          /\ o.fail.phase = "hash" => ~IsUrl(deployer.Manifests[o.fail.idx])
          /\ dres' = Deploy(deployer, remoteCache, files, o)
          /\ remoteCache' = Deploy(deployer, remoteCache, files, o).after
    /\ UNCHANGED <<deployer, files, outsideDeploy>>

\* the content of the local manifest path changes between two deploys
EditManifest ==
    /\ files' = [files EXCEPT ![LocalManifest] = 3 - @]
    /\ UNCHANGED <<deployer, remoteCache, dres, outsideDeploy>>

\* the deployment's configuration changes between two deploys
EditDeploymentConfig ==
    /\ deployer' = [deployer EXCEPT !.DeploymentConfig =
                        IF @ = "cfg1" THEN "cfg2" ELSE "cfg1"]
    /\ UNCHANGED <<files, remoteCache, dres, outsideDeploy>>

DeleteAction ==
    /\ \E o \in DeleteOracles(Len(deployer.Manifests)) :
          /\ dres' = Delete(deployer, remoteCache, o)
          /\ remoteCache' = Delete(deployer, remoteCache, o).after
    /\ UNCHANGED <<deployer, files, outsideDeploy>>

DeployNext ==
    \/ DeployAction
    \/ DeleteAction
    \/ EditManifest
    \/ EditDeploymentConfig

SpecDeploy == DeployInit /\ [][DeployNext]_vars

----------------------------------------------------------------------------
(* Vocabulary of the properties *)

NativeOps == {"Pipeline", "Build", "Deploy", "StartDev", "StopDev", "Dependency", "Dev"}

FallbackOps == {"fallbackCommands", "Cat", "EnsureCommand", "os.Executable"}

HasOp(t, ops) == \E k \in DOMAIN t : t[k].op \in ops

EventsOf(t, ops) == SelectSeq(t, LAMBDA ev : ev.op \in ops)

\* the command table of the dispatcher, as the specification gives it
MappedSubsystem(name) ==
    CASE name = "run_pipelines" -> "Pipeline"
      [] name = "build_images" -> "Build"
      [] name = "create_deployments" -> "Deploy"
      [] name = "start_dev" -> "StartDev"
      [] name = "stop_dev" -> "StopDev"
      [] name = "run_dependencies_pipeline" -> "Dependency"
      [] OTHER -> "none"

Returned == pc = "done"

HasName == Len(inv.args) > 0

\* the names the constructed engine reserves
Reserved == IF e.engine = "full" THEN ReservedNames ELSE ReducedReservedNames

ReservedCall == Returned /\ HasName /\ e.engine = "full" /\ inv.args[1] \in ReservedNames

HandledItself == Returned /\ ~HasOp(out.trace, {"DefaultExecHandler"})

----------------------------------------------------------------------------
(* Properties *)

\* C1: a reserved name invoked on a handler constructed with pipeline
\* commands disabled never reaches a native subsystem; the rejection message
\* "<name>: cannot execute the command because it can only be executed
\* within a pipeline step" is the one line on the invocation's error stream
\* and the returned exit status is 1.
C1_GatedRejection ==
    (ReservedCall /\ ~e.enablePipelineCommands) =>
        /\ ~HasOp(out.trace, NativeOps)
        /\ out.stderr = <<inv.args[1] \o ": cannot execute the command because it can only be executed within a pipeline step">>
        /\ out.ret = [kind |-> "exitStatus", status |-> 1]
        /\ (inv.args = <<"build_images", "--all">> =>
               out.stderr = <<"build_images: cannot execute the command because it can only be executed within a pipeline step">>)

C1_Witness ==
    /\ ReservedCall /\ ~e.enablePipelineCommands
    /\ inv.args = <<"build_images", "--all">>
    /\ out.ret.status = 1

\* C2: a reserved name invoked with pipeline commands enabled calls the
\* subsystem the command table maps it to and no other, exactly once, with
\* the arguments args[1:], and the exit status is 0 exactly when that call
\* returned no error.
C2_EnabledDispatch ==
    (ReservedCall /\ e.enablePipelineCommands) =>
        LET n == EventsOf(out.trace, NativeOps \cup FallbackOps \cup {"DefaultExecHandler"})
        IN /\ Len(n) = 1
           /\ n[1].op = MappedSubsystem(inv.args[1])
           /\ n[1].args = Tail(inv.args)
           /\ out.ret.kind = "exitStatus"
           /\ (out.ret.status = 0 <=> n[1].res = Nil)

C2_Witness ==
    /\ ReservedCall /\ e.enablePipelineCommands
    /\ inv.args = <<"create_deployments", "myapp", "--all">>
    /\ HasOp(out.trace, {"Deploy"})
    /\ out.ret.status = 1

\* C3: a reserved name is never passed to the local lookup, to the fallback
\* provider or to default process execution, whether pipeline commands are
\* enabled or disabled.
C3_ReservedNeverFallsThrough ==
    (Returned /\ HasName /\ inv.args[1] \in Reserved) =>
        ~HasOp(out.trace, {"lookPathDir", "DefaultExecHandler"} \cup FallbackOps)

C3_Witness ==
    /\ ReservedCall /\ ~e.enablePipelineCommands
    /\ inv.args[1] = "stop_dev"
    /\ ~inv.local
    /\ out.ret.kind = "exitStatus"

\* C4: kubectl, helm or devspace, not resolvable locally, acquired at local
\* path P: default process execution runs P with the original arguments.
C4_SubstitutedPathIsExecuted ==
    (/\ Returned /\ HasName
     /\ inv.args[1] \in {"kubectl", "helm", "devspace"}
     /\ ~inv.local
     /\ \E k \in DOMAIN out.trace :
           /\ out.trace[k].op \in {"EnsureCommand", "os.Executable"}
           /\ out.trace[k].res \in {KubectlPath, HelmPath, SelfPath})
    => \E k, j \in DOMAIN out.trace :
           /\ out.trace[k].op \in {"EnsureCommand", "os.Executable"}
           /\ out.trace[j].op = "DefaultExecHandler"
           /\ out.trace[j].name = out.trace[k].res
           /\ Tail(out.trace[j].args) = Tail(inv.args)

\* C5: a non-reserved name that the local lookup resolves never reaches the
\* fallback provider (no native cat, no acquisition, no self-path lookup);
\* default process execution gets the original name and arguments.
C5_LocalSkipsFallback ==
    (Returned /\ HasName /\ inv.args[1] \notin Reserved /\ inv.local) =>
        /\ ~HasOp(out.trace, FallbackOps)
        /\ ~HasOp(out.trace, NativeOps)
        /\ out.stderr = <<>>
        /\ LET d == EventsOf(out.trace, {"DefaultExecHandler"})
           IN /\ Len(d) = 1
              /\ d[1].name = inv.args[1]
              /\ d[1].args = inv.args

C5_Witness ==
    /\ Returned /\ HasName /\ inv.local
    /\ inv.args = <<"kubectl", "--all">>
    /\ HasOp(out.trace, {"lookPathDir"})
    /\ HasOp(out.trace, {"DefaultExecHandler"})

\* C6: a name that is not reserved, not locally resolvable and not cat,
\* kubectl, helm or devspace is declined by the fallback provider without a
\* diagnostic and without an exit status of its own; default process
\* execution gets the original name and arguments and yields status 127.
C6_UnknownNameDeclined ==
    (/\ Returned /\ HasName
     /\ inv.args[1] \notin Reserved
     /\ inv.args[1] \notin FallbackNames
     /\ ~inv.local)
    => /\ out.stderr = <<>>
       /\ LET d == EventsOf(out.trace, {"DefaultExecHandler"})
          IN /\ Len(d) = 1
             /\ d[1].args = inv.args
       /\ out.ret = [kind |-> "exitStatus", status |-> 127]

\* C7: for every reserved command the native call's error, prefixed with
\* the command name, is the one line written to the error stream and the
\* status is 1; with no error nothing is written and the status is 0.
C7_UniformTranslation ==
    (Returned /\ HasOp(out.trace, NativeOps)) =>
        LET n == EventsOf(out.trace, NativeOps)
        IN IF n[1].res = Nil
           THEN out.stderr = <<>> /\ out.ret = [kind |-> "exitStatus", status |-> 0]
           ELSE /\ out.stderr = <<inv.args[1] \o ": " \o n[1].res>>
                /\ out.ret = [kind |-> "exitStatus", status |-> 1]

\* C8: whenever the handler handles a command itself (default process
\* execution is not invoked) the value it returns is an exit status, never
\* nil and never a raw error.
C8_HandledReturnsExitStatus ==
    HandledItself => out.ret.kind = "exitStatus"

C8_Witness ==
    /\ HandledItself
    /\ HasOp(out.trace, NativeOps)
    /\ out.ret = [kind |-> "exitStatus", status |-> 0]

\* C9: the handler itself produces exit status 127 in exactly one case:
\* kubectl or helm, not locally resolvable, acquisition failed; the
\* acquisition error is then the line on the error stream.  Every other
\* status it produces itself is 0 or 1.
C9_Only127IsFailedAcquisition ==
    HandledItself =>
        /\ out.ret.kind = "exitStatus"
        /\ out.ret.status \in {0, 1, 127}
        /\ (out.ret.status = 127 <=>
               /\ inv.args[1] \in {"kubectl", "helm"}
               /\ ~inv.local
               /\ \E k \in DOMAIN out.trace :
                     /\ out.trace[k].op = "EnsureCommand"
                     /\ out.trace[k].res \in Errs \ {Nil}
                     /\ out.stderr = <<out.trace[k].res>>)

\* C10: an invocation with an empty argument list goes straight to default
\* process execution: no dispatcher, context derivation, lookup or fallback,
\* and nothing written to the error stream by the handler.
C10_EmptyArgsShortCircuit ==
    (Returned /\ inv.args = <<>>) =>
        /\ Len(out.trace) = 1
        /\ out.trace[1].op = "DefaultExecHandler"
        /\ out.trace[1].args = <<>>
        /\ out.stderr = <<>>

C10_Witness ==
    /\ Returned
    /\ inv.args = <<>>
    /\ HasOp(out.trace, {"DefaultExecHandler"})

C12_NativeCat ==
    (Returned /\ HasName /\ inv.args[1] = "cat" /\ ~inv.local) =>
        LET c == EventsOf(out.trace, {"Cat"})
        IN /\ Len(c) = 1
           /\ c[1].args = Tail(inv.args)
           /\ ~HasOp(out.trace, {"DefaultExecHandler"})
           /\ IF c[1].res = Nil
              THEN out.ret = [kind |-> "exitStatus", status |-> 0] /\ out.stderr = <<>>
              ELSE out.ret = [kind |-> "exitStatus", status |-> 1] /\ out.stderr = <<c[1].res>>

C12_Witness ==
    /\ Returned /\ HasName /\ inv.args[1] = "cat" /\ ~inv.local
    /\ HasOp(out.trace, {"Cat"})
    /\ out.ret = [kind |-> "exitStatus", status |-> 0]

\* the command table of the reduced engine, as the specification gives it
MappedSubsystemReduced(name) ==
    CASE name = "build" -> "Build"
      [] name = "deploy" -> "Deploy"
      [] name = "dev" -> "Dev"
      [] OTHER -> "none"

\* C13: in the reduced engine build, deploy and dev are handled without a
\* gate: one call to the mapped subsystem with the given arguments, and
\* when it returns no error the exit status is 0 and nothing is written to
\* the error stream.
C13_ReducedUngated ==
    (Returned /\ HasName /\ e.engine = "reduced"
              /\ inv.args[1] \in {"build", "deploy", "dev"}) =>
        LET n == EventsOf(out.trace, NativeOps \cup FallbackOps \cup {"DefaultExecHandler"})
        IN /\ Len(n) = 1
           /\ n[1].op = MappedSubsystemReduced(inv.args[1])
           /\ n[1].args = Tail(inv.args)
           /\ (n[1].res = Nil =>
                  out.ret = [kind |-> "exitStatus", status |-> 0] /\ out.stderr = <<>>)

C13_Witness ==
    /\ Returned /\ e.engine = "reduced"
    /\ inv.args = <<"deploy", "myapp">>
    /\ HasOp(out.trace, {"Deploy"})
    /\ out.ret = [kind |-> "exitStatus", status |-> 0]
    /\ out.stderr = <<>>

\* C16: every invocation takes one resolution path: the handler returns an
\* exit status of its own and default process execution is not invoked, or
\* default process execution is invoked once and no native subsystem was
\* called.
C16_OneResolutionPath ==
    Returned =>
        LET d == EventsOf(out.trace, {"DefaultExecHandler"})
        IN \/ Len(d) = 0 /\ out.ret.kind = "exitStatus"
           \/ Len(d) = 1 /\ ~HasOp(out.trace, NativeOps \cup {"Cat"})

C16_Witness ==
    /\ Returned
    /\ HasOp(out.trace, {"StartDev"})
    /\ out.ret = [kind |-> "exitStatus", status |-> 0]

GateRejected ==
    /\ ~HasOp(out.trace, NativeOps)
    /\ out.stderr = <<inv.args[1] \o ": cannot execute the command because it can only be executed within a pipeline step">>

\* C17: no invocation changes the handler (its flag in particular), the
\* names the dispatcher handles are the six reserved names at every point
\* of a run, and a reserved name is rejected exactly when the flag the
\* handler held before the invocation is off.
C17_FlagAndTableFixed ==
    [][/\ e' = e
       /\ (Returned /\ HasName /\ e.engine = "full")' =>
              (~HasOp(out.trace, {"lookPathDir"}))' = (inv.args[1] \in ReservedNames)'
       /\ ReservedCall' => (GateRejected' = ~e.enablePipelineCommands)]_vars

C17_Witness ==
    /\ ReservedCall
    /\ e.enablePipelineCommands
    /\ HasOp(out.trace, {"Dependency"})
    /\ ~GateRejected

\* C15: once kubectl or helm has been acquired in a run (the downloader
\* holds its resolved path), every later invocation of that name that
\* reaches the downloader gets the held path and acquires nothing; a path
\* enters the downloader's cache only by an acquisition.
C15_CachedPathReused ==
    [][(pc = "called" /\ pc' = "done" /\ ToolOf(inv) # "none") =>
          /\ cache[ToolOf(inv)] # Nil =>
                /\ acq' = <<>>
                /\ cache' = cache
                /\ \A k \in DOMAIN out'.trace :
                      out'.trace[k].op = "EnsureCommand" =>
                          out'.trace[k].res = cache[ToolOf(inv)]
          /\ (cache[ToolOf(inv)] = Nil /\ cache'[ToolOf(inv)] # Nil) =>
                acq' = <<ToolOf(inv)>>]_vars

C15_Witness ==
    /\ Returned
    /\ inv.args[1] = "kubectl"
    /\ ~inv.local
    /\ \E k \in DOMAIN out.trace :
          out.trace[k].op = "EnsureCommand" /\ out.trace[k].res = cache["kubectl"]
    /\ acq = <<>>
    /\ cache["kubectl"] = "/cache/kubectl"

\* C18: the scoped context of a native call carries the working directory
\* and the cancellation scope of the invocation being handled, whatever the
\* previous invocation's were, and no invocation changes the ambient
\* context the handler holds.
C18_ScopedContextPerInvocation ==
    [][/\ e.ctx' = e.ctx
       /\ Returned' =>
             \A k \in DOMAIN out'.trace :
                 out'.trace[k].op \in NativeOps =>
                     /\ out'.trace[k].devCtx.workingDir = inv'.dir
                     /\ out'.trace[k].devCtx.context = inv'.ctx]_vars

C18_Witness ==
    /\ Returned
    /\ prev.dir = "/work"
    /\ inv.dir = "/work/sub"
    /\ prev.ctx # inv.ctx
    /\ \E k \in DOMAIN out.trace :
          /\ out.trace[k].op \in NativeOps
          /\ out.trace[k].devCtx.workingDir = "/work/sub"
    /\ e.ctx.workingDir = "/work"

\* the outcome of step p's invocation had it been handled alone
Alone(p) ==
    IF e.engine = "full"
    THEN ExecHandler(e, ps[p].inv, ps[p].o)
    ELSE ExecHandlerReduced(e, ps[p].inv, ps[p].o)

\* C14: for every interleaving of concurrent invocations on one handler,
\* each invocation makes the calls (subsystem, arguments, working
\* directory, logger), writes the error-stream lines and returns the value
\* it would alone, and no invocation writes to another one's error stream.
C14_ConcurrentInvocationsIndependent ==
    \A p \in Procs :
        /\ \A k \in DOMAIN streams[p] : streams[p][k].by = p
        /\ ps[p].pc = "done" =>
              /\ ps[p].trace = Alone(p).trace
              /\ [k \in DOMAIN streams[p] |-> streams[p][k].line] = Alone(p).stderr
              /\ ps[p].ret = Alone(p).ret

C14_Witness ==
    /\ ps[1].pc = "done" /\ ps[2].pc = "done"
    /\ ps[1].inv.dir # ps[2].inv.dir
    /\ ps[1].inv.args[1] = "build_images" /\ ps[2].inv.args[1] = "build_images"
    /\ ps[1].o.err = "E1" /\ ps[2].o.err = Nil
    /\ e.enablePipelineCommands
    /\ Len(streams[1]) = 1 /\ Len(streams[2]) = 0

\* C19: over any number of sequential or concurrent calls of
\* CheckForNewerVersion the remote detection runs at most once; once it has
\* run, the memoised version and error never change (a failed detection is
\* not retried), and every call that returns returns that memoised pair.
C19_DetectionOnceAndMemoised ==
    [][/\ detections' <= 1
       /\ latestVersionOnce = "done" =>
             /\ latestVersionOnce' = "done"
             /\ latestVersion' = latestVersion
             /\ latestVersionErr' = latestVersionErr
             /\ detections' = detections
       /\ \A c \in Callers :
             callers'[c].pc = "returned" =>
                 /\ latestVersionOnce' = "done"
                 /\ callers'[c].ret = <<latestVersion', latestVersionErr'>>]_vars

C19_Witness ==
    /\ callers[1].pc = "returned" /\ callers[2].pc = "returned"
    /\ callers[1].ret = <<<<>>, "E1">>
    /\ callers[2].ret = <<<<>>, "E1">>
    /\ detections = 1

\* C20: Deploy never skips a manifest, whether or not the hashes it
\* computes equal the cached ones: a Deploy that succeeds has applied every
\* configured manifest, in order, and has stored the manifest hash and the
\* deployment-config hash it computed in the deployment cache; wasDeployed
\* is true exactly when it succeeds with at least one manifest.
C20_AlwaysRedeploy ==
    dres.op = "Deploy" =>
        /\ dres.skipped = <<>>
        /\ dres.err = Nil =>
              /\ dres.applied = dres.manifests
              /\ remoteCache.present
              /\ remoteCache.KubectlManifestsHash = dres.manifestsHash
              /\ remoteCache.DeploymentConfigHash = dres.deploymentConfigHash
              /\ Len(dres.manifestsHash) = Len(dres.manifests)
              /\ dres.deploymentConfigHash # <<>>
        /\ dres.wasDeployed = (dres.err = Nil /\ Len(dres.manifests) > 0)

C20_Witness ==
    /\ dres.op = "Deploy"
    /\ dres.before.present
    /\ dres.before.KubectlManifestsHash = dres.manifestsHash
    /\ dres.before.DeploymentConfigHash = dres.deploymentConfigHash
    /\ dres.redeploy = {}
    /\ Len(dres.manifests) = 2
    /\ dres.applied = dres.manifests
    /\ dres.wasDeployed

IsPrefix(a, b) == Len(a) <= Len(b) /\ a = SubSeq(b, 1, Len(a))

\* C21: a Deploy that fails in hashing, in building a manifest or in an
\* apply returns (false, error), has applied only the manifests before the
\* failing one, and leaves the stored deployment cache entry as it was; the
\* entry changes only in a Deploy that applied every manifest.
C21_CacheWrittenOnlyOnSuccess ==
    dres.op = "Deploy" =>
        /\ dres.err # Nil =>
              /\ ~dres.wasDeployed
              /\ remoteCache = dres.before
              /\ IsPrefix(dres.applied, dres.manifests)
              /\ dres.err \in {"Error hashing", "marshal deployment config"}
                    => dres.applied = <<>>
              /\ dres.err \in {"build manifests", "kubectl apply"}
                    => Len(dres.applied) < Len(dres.manifests)
        /\ remoteCache # dres.before =>
              dres.err = Nil /\ dres.applied = dres.manifests

C21_Witness ==
    /\ dres.op = "Deploy"
    /\ dres.err = "kubectl apply"
    /\ Len(dres.manifests) = 2
    /\ Len(dres.applied) = 1
    /\ dres.before.present
    /\ dres.before.KubectlManifestsHash # dres.manifestsHash
    /\ remoteCache = dres.before

Reverse(q) == [k \in 1..Len(q) |-> q[Len(q) + 1 - k]]

\* C22: Delete deletes the manifests in the reverse of the configured
\* order, which is the order Deploy applies them in, and stops at the first
\* failure; it deletes the deployment cache entry when every manifest was
\* deleted, and leaves the entry in place when it returns an error.
C22_DeleteReverseOrder ==
    dres.op = "Delete" =>
        /\ IsPrefix(dres.deleted, Reverse(dres.manifests))
        /\ dres.err = Nil =>
              dres.deleted = Reverse(dres.manifests) /\ remoteCache = NoDeploymentCache
        /\ dres.err # Nil =>
              Len(dres.deleted) < Len(dres.manifests) /\ remoteCache = dres.before

C22_Witness ==
    /\ dres.op = "Delete"
    /\ dres.before.present
    /\ dres.manifests = <<LocalManifest, UrlManifest>>
    /\ dres.deleted = <<UrlManifest, LocalManifest>>
    /\ dres.err = Nil
    /\ ~remoteCache.present

\* C25: version and rawVersion are both unset, or rawVersion begins with
\* "v" and version is the suffix of rawVersion that starts at the first
\* d.d.d match in it; a SetVersion call with the empty text or with a text
\* without a d.d.d pattern leaves both as they were.
C25_VersionPairConsistent ==
    [][/\ \/ version' = <<>> /\ rawVersion' = <<>>
          \/ /\ rawVersion'[1] = "v"
             /\ \E i \in DOMAIN rawVersion' :
                   /\ MatchAt(rawVersion', i)
                   /\ \A h \in 1..(i - 1) : ~MatchAt(rawVersion', h)
                   /\ version' = SubSeq(rawVersion', i, Len(rawVersion'))
       /\ (verText' = <<>> \/ \A i \in DOMAIN verText' : ~MatchAt(verText', i)) =>
             version' = version /\ rawVersion' = rawVersion]_vars

C25_Witness ==
    /\ verText = <<"d", "e", "v">>
    /\ version = V500
    /\ rawVersion = <<"v", "r", "e", "l", "-">> \o V500

\* C23: a NewerVersionAvailable call that has returned gave the memoised
\* latest version when detection left no error and that version is greater
\* than the current one in semver order, and the empty text in every other
\* case; with the current version unset it returns the empty text without
\* entering CheckForNewerVersion.
C23_NewerOnlyIfGreater ==
    \A c \in Callers :
        callers[c].fn = "NewerVersionAvailable" =>
            /\ version = <<>> => callers[c].pc = "done" /\ callers[c].res = <<>>
            /\ callers[c].pc = "done" /\ version # <<>> =>
                  /\ latestVersionOnce = "done"
                  /\ callers[c].res # <<>> =>
                        /\ callers[c].res = latestVersion
                        /\ latestVersionErr = Nil
                        /\ SemverParse(version).ok
                        /\ SemverCompare(SemverParse(callers[c].res).v,
                                         SemverParse(version).v) = 1
                  /\ callers[c].res = <<>> =>
                        \/ latestVersion = <<>>
                        \/ latestVersionErr # Nil
                        \/ SemverCompare(SemverParse(latestVersion).v,
                                         SemverParse(version).v) # 1

C23_Witness ==
    /\ callers[1].fn = "NewerVersionAvailable" /\ callers[1].pc = "done"
    /\ version = V500
    /\ callers[1].res = V600
    /\ callers[2].fn = "NewerVersionAvailable" /\ callers[2].pc = "done"
    /\ callers[2].res = V600

\* C24: CheckForNewerVersion and Upgrade never abort the process, whatever
\* the current version is: unset, rejected by SetVersion, or set.
C24_ChecksNeverAbort ==
    /\ ~crashed
    /\ \A c \in Callers : callers[c].pc # "panicked"

====
